---- MODULE Spec2Model ----
(***************************************************************************)
(* Model of the classification training driver                             *)
(* (references/classification/train.py) and of the COCO segmentation       *)
(* dataset loader (references/segmentation/dataset_utils.py).              *)
(*                                                                         *)
(* Python strings are sequences of one-character strings, so that split,   *)
(* lstrip, lower and startswith are computed rather than assumed.          *)
(* Python's None, where a string is expected, is the one-element sequence  *)
(* None, whose element is not a character.                                 *)
(*                                                                         *)
(* The driver is modelled as the primary process of a run (the one on      *)
(* which save_on_master and export_on_master write).                       *)
(***************************************************************************)
EXTENDS Integers, Sequences, FiniteSets, TLC

\* ------------------------------------------------------------------------
\* Bounds
\* ------------------------------------------------------------------------
MaxSpecLen == 4     \* longest weights specifier explored by SpecSplit
MaxEpochs == 12     \* largest --epochs explored by SpecTrain
MaxAnns == 2        \* most annotations in an annotation file (SpecCoco)
NumImgs == 2        \* images in an annotation file (SpecCoco)
MaxAcc == 2         \* accuracies are 0..MaxAcc
ShortRun == 5       \* runs of more epochs report only accuracy 0 or MaxAcc
NumPixels == 2      \* pixels of an image (SpecItem)
MaxBatches == 4     \* most batches a data loader yields

\* ------------------------------------------------------------------------
\* Strings
\* ------------------------------------------------------------------------
None == <<"None">>
Unset == <<"unset">>           \* attribute not assigned yet

UpperChars == <<"A","B","C","D","E","F","G","H","I","J","K","L","M",
                "N","O","P","Q","R","S","T","U","V","W","X","Y","Z">>
LowerChars == <<"a","b","c","d","e","f","g","h","i","j","k","l","m",
                "n","o","p","q","r","s","t","u","v","w","x","y","z">>

LowerChar(c) ==
    IF \E i \in 1..26 : UpperChars[i] = c
    THEN LowerChars[CHOOSE i \in 1..26 : UpperChars[i] = c]
    ELSE c

lower_m(s) == s
\* str.lower()
lower(s) == [i \in 1..Len(s) |-> LowerChar(s[i])]

\* str.startswith(prefix)
startswith(s, prefix) ==
    /\ Len(s) >= Len(prefix)
    /\ SubSeq(s, 1, Len(prefix)) = prefix

Whitespace == {" "}

\* str.lstrip(): leading whitespace is removed, trailing whitespace is kept
RECURSIVE lstrip(_)
lstrip(w) == IF w # <<>> /\ Head(w) \in Whitespace THEN lstrip(Tail(w)) ELSE w

\* str.split(','): always at least one token, empty tokens are kept
RECURSIVE SplitComma(_)
SplitComma(s) ==
    IF \A i \in 1..Len(s) : s[i] # ","
    THEN <<s>>
    ELSE LET k == CHOOSE i \in 1..Len(s) :
                      s[i] = "," /\ \A j \in 1..(i-1) : s[j] # ","
         IN  <<SubSeq(s, 1, k-1)>> \o SplitComma(SubSeq(s, k+1, Len(s)))

Max(S) == CHOOSE x \in S : \A y \in S : y <= x

\* ------------------------------------------------------------------------
\* State
\* ------------------------------------------------------------------------
VARIABLES
    \* environment
    url_or_file,    \* the strings edgeai_torchmodelopt's is_url_or_file accepts
    resume_file,    \* content of the checkpoint file args.resume points to
    dist_env,       \* what utils.init_distributed_mode leaves in args.distributed
    argv,           \* the record get_args_parser().parse_args() returned
    \* main(args)
    args,           \* the args record
    pc,             \* position of main
    alive,          \* FALSE once the process has been killed
    err,            \* the uncaught exception, None while there is none
    logger,         \* the TeeLogger: "none", "open", "closed"
    built,          \* objects constructed so far
    restored,       \* components restored from the resume checkpoint
    epoch,          \* loop variable of the training loop
    best_acc,
    epoch_acc,
    sampler_epoch,  \* last value given to train_sampler.set_epoch
    trained,        \* epochs given to train_one_epoch, in call order
    lr_steps,       \* number of lr_scheduler.step() calls
    evals,          \* models given to evaluate, in call order (this epoch / test)
    fs,             \* files under args.output_dir
    last_ckpt,      \* the checkpoint file written last by this run
    hist,           \* accuracy that each finished evaluation phase reported
    \* split_weights called on its own
    sw_in, sw_out,
    \* COCOSegmentation
    coco,           \* the annotation file and constructor arguments
    rng,            \* per seed, the order random.shuffle puts positions in
    ds,             \* the dataset object
    item,           \* what the last __getitem__ call returned or raised
    ops,            \* the library calls the last __getitem__ call made
    \* load_data called on its own, run after run
    cache,          \* the files under ~/.torch/vision/datasets/imagefolder
    ld,             \* the last load_data call: its arguments and what it did
    \* train_one_epoch or evaluate called on its own
    ep,             \* the call: its arguments, loop index and EMA counter
    calls           \* the calls made on optimizer, EMA model and meters

envVars == <<url_or_file, resume_file, dist_env, argv>>
mainVars == <<args, pc, alive, err, logger, built, restored, epoch, best_acc,
              epoch_acc, sampler_epoch, trained, lr_steps, evals, fs,
              last_ckpt, hist>>
splitVars == <<sw_in, sw_out>>
cocoVars == <<coco, rng, ds, item, ops>>
cacheVars == <<cache, ld>>
epochVars == <<ep, calls>>
vars == <<envVars, mainVars, splitVars, cocoVars, cacheVars, epochVars>>

\* ------------------------------------------------------------------------
\* split_weights
\* ------------------------------------------------------------------------
is_url_or_file(w) == w \in url_or_file

IsUrl(w) == is_url_or_file(w)
IsEnum(w) == ~is_url_or_file(w)

split_weights_m(weights_name) ==
    LET weights_list == SplitComma(weights_name)
        weights_urls == SelectSeq(weights_list, IsUrl)
        weights_enums == SelectSeq(weights_list, IsEnum)
    IN  << IF Len(weights_urls) > 0 THEN weights_urls[1] ELSE None,
           IF Len(weights_enums) > 0 THEN weights_enums[1] ELSE None >>

split_weights(weights_name) ==
    LET weights_list == SplitComma(weights_name)
        stripped == [i \in 1..Len(weights_list) |-> lstrip(weights_list[i])]
        weights_urls == SelectSeq(stripped, IsUrl)
        weights_enums == SelectSeq(stripped, IsEnum)
    IN  << IF Len(weights_urls) > 0 THEN weights_urls[1] ELSE None,
           IF Len(weights_enums) > 0 THEN weights_enums[1] ELSE None >>

\* None has no split method
split_weights_raises(weights_name) == weights_name = None

\* ------------------------------------------------------------------------
\* Names the command line can carry
\* ------------------------------------------------------------------------
S_sgd == <<"s","g","d">>
S_SGD == <<"S","G","D">>
S_sgd_nesterov == <<"s","g","d","_","n","e","s","t","e","r","o","v">>
S_rmsprop == <<"r","m","s","p","r","o","p">>
S_adamw == <<"a","d","a","m","w">>
S_adam == <<"a","d","a","m">>
S_steplr == <<"s","t","e","p","l","r">>
S_StepLR == <<"S","t","e","p","L","R">>
S_cosineannealinglr ==
    <<"c","o","s","i","n","e","a","n","n","e","a","l","i","n","g","l","r">>
S_exponentiallr == <<"e","x","p","o","n","e","n","t","i","a","l","l","r">>
S_plateau == <<"p","l","a","t","e","a","u">>
S_linear == <<"l","i","n","e","a","r">>
S_constant == <<"c","o","n","s","t","a","n","t">>
S_cosine == <<"c","o","s","i","n","e">>
S_dot == <<".">>
S_empty == <<>>
S_ckpt == <<"c","k","p","t">>
S_enum == <<"e">>               \* a bare identifier such as IMAGENET1K_V1
S_path == <<"p">>               \* a path or URL such as w.pth
S_path_enum == <<"p", ",", " ", "e">>

\* Python truthiness of an optional string
Truthy(s) == s # None /\ s # Unset /\ s # <<>>

\* ------------------------------------------------------------------------
\* Constants of the program and of the libraries it calls
\* ------------------------------------------------------------------------
LastN == 10                 \* epoch >= (args.epochs-10)
PRUNING_LEGACY == 1
PRUNING_FX == 2
DefaultWeights == None      \* --weights default
NoErr == "none"

\* accuracies evaluate can report (utils.accuracy yields 0..100; the driver
\* only compares them)
AccChoices(epochs) == IF epochs > ShortRun THEN {0, MaxAcc} ELSE 0..MaxAcc

\* ------------------------------------------------------------------------
\* Decisions of main
\* ------------------------------------------------------------------------
ModesConflict_m(a) == a.distributed # 0 /\ a.parallel # 0 /\ a.test_only
\* if args.distributed and args.parallel
ModesConflict(a) == a.distributed # 0 /\ a.parallel # 0

OptimizerKnown_m(opt) ==
    LET opt_name == lower(opt)
    IN  \/ startswith(opt_name, S_sgd)
        \/ opt_name = S_rmsprop
        \/ startswith(opt_name, S_adam)
\* the optimizer chain: sgd* / rmsprop / adamw, else RuntimeError
OptimizerKnown(opt) ==
    LET opt_name == lower(opt)
    IN  \/ startswith(opt_name, S_sgd)
        \/ opt_name = S_rmsprop
        \/ opt_name = S_adamw

\* the scheduler chain, applied to the lower-cased name
SchedulerKnown(name) ==
    name \in {S_steplr, S_cosineannealinglr, S_exponentiallr}

\* the warmup chain is entered only when lr_warmup_epochs > 0
WarmupRaises(a) ==
    /\ a.lr_warmup_epochs > 0
    /\ a.lr_warmup_method \notin {S_linear, S_constant}

IsNumbered_m(e, epochs) == e = 0 \/ e > (epochs - LastN)
\* if epoch == 0 or epoch >= (args.epochs-10)
IsNumbered(e, epochs) == e = 0 \/ e >= (epochs - LastN)

IsBest_m(acc, best) == acc > best
\* if epoch_acc >= best_acc
IsBest(acc, best) == acc >= best

Checkpoint_m(e) ==
    [epoch |-> e + 1,
     model_ema |-> "model_ema" \in built,
     scaler |-> "scaler" \in built,
     args |-> args]
\* the checkpoint dict built in the training loop
Checkpoint(e) ==
    [epoch |-> e,
     model_ema |-> "model_ema" \in built,
     scaler |-> "scaler" \in built,
     args |-> args]

\* export_model: the model object handed over, converted when quantization
\* is on, written to <output_dir>/<model_name>
Export(model, e) ==
    [model |-> model, epoch |-> e, converted |-> args.quantization # 0]

ResumeStartEpoch_m(checkpoint) == checkpoint.epoch
\* args.start_epoch = checkpoint["epoch"] + 1
ResumeStartEpoch(checkpoint) == checkpoint.epoch + 1

EmptyFs == [ckpt |-> {}, onnx |-> {}, ckpt_n |-> <<>>, onnx_n |-> <<>>,
             onnx_test |-> {}]

\* ------------------------------------------------------------------------
\* Initial states of main
\* ------------------------------------------------------------------------
NoResumeFile == [epoch |-> 0, model_ema |-> FALSE, scaler |-> FALSE]

IdleMain ==
    /\ pc = "idle"
    /\ alive = TRUE
    /\ err = NoErr
    /\ logger = "none"
    /\ built = {}
    /\ restored = {}
    /\ epoch = 0
    /\ best_acc = 0
    /\ epoch_acc = 0
    /\ sampler_epoch = -1
    /\ trained = <<>>
    /\ lr_steps = 0
    /\ evals = <<>>
    /\ fs = EmptyFs
    /\ last_ckpt = {}
    /\ hist = <<>>
IdleSplit == sw_in = S_empty /\ sw_out = <<None, None>>
NoDataset == [num_imgs |-> -1]      \* no COCOSegmentation constructed
NoItem == [kind |-> "none"]         \* no __getitem__ call made
IdleCoco ==
    /\ coco = <<>> /\ rng = <<>> /\ ds = NoDataset
    /\ item = NoItem /\ ops = {}
\* no load_data call made
NoCall == [called |-> FALSE, cwd |-> <<"/">>, traindir |-> <<>>,
           valdir |-> <<>>, cache_dataset |-> FALSE,
           dataset |-> <<>>, dataset_test |-> <<>>,
           constructed |-> {}, read |-> {}, written |-> {}]
IdleCache == cache = <<>> /\ ld = NoCall
\* no train_one_epoch or evaluate call made
NoEpoch == [fn |-> "none"]
IdleEpoch == ep = NoEpoch /\ calls = <<>>

InitMain(Args, Env, Resumes) ==
    /\ args \in Args
    /\ argv = args
    /\ url_or_file = {S_path}
    /\ resume_file \in (IF Truthy(args.resume) THEN Resumes ELSE {NoResumeFile})
    /\ dist_env \in Env
    /\ pc = "start"
    /\ alive = TRUE
    /\ err = NoErr
    /\ logger = "none"
    /\ built = {}
    /\ restored = {}
    /\ epoch = 0
    /\ best_acc = 0
    /\ epoch_acc = 0
    /\ sampler_epoch = -1
    /\ trained = <<>>
    /\ lr_steps = 0
    /\ evals = <<>>
    /\ fs = EmptyFs
    /\ last_ckpt = {}
    /\ hist = <<>>
    /\ IdleSplit
    /\ IdleCoco
    /\ IdleCache
    /\ IdleEpoch

\* ------------------------------------------------------------------------
\* main(args), one action per stage
\* ------------------------------------------------------------------------
loopVars == <<epoch, best_acc, epoch_acc, sampler_epoch, trained, lr_steps,
              evals, hist>>
outVars == <<fs, last_ckpt>>
others == <<envVars, splitVars, cocoVars, cacheVars, epochVars>>

\* model_without_ddp is model, or model.module when model is wrapped
Unwrapped(m) == IF m = "model" THEN "model_without_ddp" ELSE m

\* mkdir, TeeLogger, split_weights
Setup ==
    /\ alive /\ pc = "start"
    /\ logger' = "open"
    /\ IF split_weights_raises(args.weights)
       THEN /\ pc' = "aborted"
            /\ err' = "AttributeError"
            /\ args' = args
       ELSE /\ args' = [args EXCEPT
                           !.weights_url = split_weights(args.weights)[1],
                           !.weights_enum = split_weights(args.weights)[2]]
            /\ pc' = "init_distributed_mode"
            /\ err' = err
    /\ UNCHANGED <<alive, built, restored, loopVars, outVars, others>>

\* utils.init_distributed_mode(args)
InitDistributedMode ==
    /\ alive /\ pc = "init_distributed_mode"
    /\ args' = [args EXCEPT !.distributed = dist_env]
    /\ pc' = "check_modes"
    /\ UNCHANGED <<alive, err, logger, built, restored, loopVars, outVars,
                   others>>

CheckModes ==
    /\ alive /\ pc = "check_modes"
    /\ IF ModesConflict(args)
       THEN pc' = "aborted" /\ err' = "RuntimeError_modes"
       ELSE pc' = "load_data" /\ err' = err
    /\ UNCHANGED <<args, alive, logger, built, restored, loopVars, outVars,
                   others>>

\* load_data and the two DataLoaders
LoadData ==
    /\ alive /\ pc = "load_data"
    /\ built' = built \cup {"dataset", "data_loader"}
    /\ pc' = "create_model"
    /\ UNCHANGED <<args, alive, err, logger, restored, loopVars, outVars,
                   others>>

\* model_utils.get_model, surgery, load_weights for training
CreateModel ==
    /\ alive /\ pc = "create_model"
    /\ built' = built \cup {"model"} \cup
                (IF Truthy(args.weights_url) /\ ~args.test_only
                 THEN {"weights_train"} ELSE {})
    /\ pc' = "pruning"
    /\ UNCHANGED <<args, alive, err, logger, restored, loopVars, outVars,
                   others>>

Pruning ==
    /\ alive /\ pc = "pruning"
    /\ IF args.pruning = PRUNING_LEGACY
       THEN pc' = "aborted" /\ err' = "AssertionError_pruning" /\ built' = built
       ELSE /\ built' = built \cup
                        (IF args.pruning = PRUNING_FX THEN {"pruner"} ELSE {})
            /\ pc' = "quantization"
            /\ err' = err
    /\ UNCHANGED <<args, alive, logger, restored, loopVars, outVars, others>>

\* quantization wrapper, load_weights for test, model.to, criterion,
\* parameter groups
Quantization ==
    /\ alive /\ pc = "quantization"
    /\ built' = built \cup {"criterion"} \cup
                (IF args.quantization # 0 THEN {"qat"} ELSE {}) \cup
                (IF Truthy(args.weights_url) /\ args.test_only
                 THEN {"weights_test"} ELSE {})
    /\ pc' = "optimizer"
    /\ UNCHANGED <<args, alive, err, logger, restored, loopVars, outVars,
                   others>>

\* optimizer and GradScaler
Optimizer ==
    /\ alive /\ pc = "optimizer"
    /\ IF OptimizerKnown(args.opt)
       THEN /\ built' = built \cup {"optimizer"} \cup
                        (IF args.amp THEN {"scaler"} ELSE {})
            /\ pc' = "lr_scheduler"
            /\ err' = err
       ELSE pc' = "aborted" /\ err' = "RuntimeError_optimizer" /\ built' = built
    /\ UNCHANGED <<args, alive, logger, restored, loopVars, outVars, others>>

LrScheduler ==
    /\ alive /\ pc = "lr_scheduler"
    /\ args' = [args EXCEPT !.lr_scheduler = lower(@)]
    /\ IF ~SchedulerKnown(args'.lr_scheduler)
       THEN pc' = "aborted" /\ err' = "RuntimeError_lr_scheduler"
            /\ built' = built
       ELSE IF WarmupRaises(args)
       THEN pc' = "aborted" /\ err' = "RuntimeError_warmup" /\ built' = built
       ELSE /\ built' = built \cup {"lr_scheduler"}
            /\ pc' = "wrap"
            /\ err' = err
    /\ UNCHANGED <<alive, logger, restored, loopVars, outVars, others>>

\* DistributedDataParallel / DataParallel, ExponentialMovingAverage
Wrap ==
    /\ alive /\ pc = "wrap"
    /\ built' = built \cup
                (IF args.distributed # 0 THEN {"ddp"}
                 ELSE IF args.parallel # 0 THEN {"dp"} ELSE {}) \cup
                (IF args.model_ema THEN {"model_ema"} ELSE {})
    /\ pc' = "resume"
    /\ UNCHANGED <<args, alive, err, logger, restored, loopVars, outVars,
                   others>>

\* if args.resume: ...
Resume ==
    /\ alive /\ pc = "resume"
    /\ IF ~Truthy(args.resume)
       THEN pc' = "test_only" /\ UNCHANGED <<args, restored, err>>
       ELSE LET checkpoint == resume_file
                base == {"model"} \cup
                        (IF ~args.test_only
                         THEN {"optimizer", "lr_scheduler"} ELSE {})
                ema == IF "model_ema" \in built THEN {"model_ema"} ELSE {}
                sca == IF "scaler" \in built THEN {"scaler"} ELSE {}
            IN  /\ args' = [args EXCEPT !.start_epoch = ResumeStartEpoch(checkpoint)]
                /\ IF "model_ema" \in built /\ ~checkpoint.model_ema
                   THEN /\ restored' = base
                        /\ pc' = "aborted" /\ err' = "KeyError_model_ema"
                   ELSE IF "scaler" \in built /\ ~checkpoint.scaler
                   THEN /\ restored' = base \cup ema
                        /\ pc' = "aborted" /\ err' = "KeyError_scaler"
                   ELSE /\ restored' = base \cup ema \cup sca
                        /\ pc' = "test_only" /\ err' = err
    /\ UNCHANGED <<alive, logger, built, loopVars, outVars, others>>

\* if args.test_only: evaluate, export_model, return; else enter the loop
TestOnly ==
    /\ alive /\ pc = "test_only"
    /\ IF args.test_only
       THEN /\ evals' = <<IF "model_ema" \in built
                          THEN "model_ema" ELSE "model">>
            /\ fs' = [fs EXCEPT
                         !.onnx_test = {Export("model_without_ddp", 0)}]
            /\ pc' = "done"
            /\ UNCHANGED <<best_acc, epoch>>
       ELSE /\ best_acc' = 0
            /\ epoch' = args.start_epoch
            /\ pc' = "loop"
            /\ UNCHANGED <<evals, fs>>
    /\ UNCHANGED <<args, alive, err, logger, built, restored, epoch_acc,
                   sampler_epoch, trained, lr_steps, hist, last_ckpt, others>>

set_epoch_m(a, e, previous) == e
\* if args.distributed: train_sampler.set_epoch(epoch)
set_epoch(a, e, previous) == IF a.distributed # 0 THEN e ELSE previous

\* for epoch in range(args.start_epoch, args.epochs); set_epoch
Loop ==
    /\ alive /\ pc = "loop"
    /\ IF epoch < args.epochs
       THEN /\ sampler_epoch' = set_epoch(args, epoch, sampler_epoch)
            /\ evals' = <<>>
            /\ pc' = "train"
       ELSE /\ pc' = "finish"
            /\ UNCHANGED <<sampler_epoch, evals>>
    /\ UNCHANGED <<args, alive, err, logger, built, restored, epoch, best_acc,
                   epoch_acc, trained, lr_steps, hist, outVars, others>>

TrainOneEpoch ==
    /\ alive /\ pc = "train"
    /\ trained' = Append(trained, epoch)
    /\ pc' = "lr_step"
    /\ UNCHANGED <<args, alive, err, logger, built, restored, epoch, best_acc,
                   epoch_acc, sampler_epoch, lr_steps, evals, hist, outVars,
                   others>>

LrStep ==
    /\ alive /\ pc = "lr_step"
    /\ lr_steps' = lr_steps + 1
    /\ pc' = "evaluate"
    /\ UNCHANGED <<args, alive, err, logger, built, restored, epoch, best_acc,
                   epoch_acc, sampler_epoch, trained, evals, hist, outVars,
                   others>>

\* epoch_acc = evaluate(args, model, ...)
Evaluate ==
    /\ alive /\ pc = "evaluate"
    /\ \E acc \in AccChoices(args.epochs) :
          /\ epoch_acc' = acc
          /\ hist' = IF args.model_ema THEN hist ELSE Append(hist, acc)
    /\ evals' = Append(evals, "model")
    /\ pc' = IF "model_ema" \in built THEN "evaluate_ema" ELSE "save"
    /\ UNCHANGED <<args, alive, err, logger, built, restored, epoch, best_acc,
                   sampler_epoch, trained, lr_steps, outVars, others>>

\* epoch_acc = evaluate(args, model_ema, ..., log_suffix="EMA")
EvaluateEma ==
    /\ alive /\ pc = "evaluate_ema"
    /\ \E acc \in AccChoices(args.epochs) :
          /\ epoch_acc' = acc
          /\ hist' = Append(hist, acc)
    /\ evals' = Append(evals, "model_ema")
    /\ pc' = "save"
    /\ UNCHANGED <<args, alive, err, logger, built, restored, epoch, best_acc,
                   sampler_epoch, trained, lr_steps, outVars, others>>

\* the numbered checkpoint and export
Save ==
    /\ alive /\ pc = "save"
    /\ IF Truthy(args.output_dir) /\ IsNumbered(epoch, args.epochs)
       THEN /\ fs' = [fs EXCEPT
                         !.ckpt_n = (epoch :> Checkpoint(epoch)) @@ @,
                         !.onnx_n = (epoch :> Export("model_without_ddp",
                                                     epoch)) @@ @]
            /\ last_ckpt' = {Checkpoint(epoch)}
       ELSE UNCHANGED <<fs, last_ckpt>>
    /\ pc' = "save_best"
    /\ UNCHANGED <<args, alive, err, logger, built, restored, loopVars,
                   others>>

\* the rolling checkpoint and export; end of the loop body
SaveBest ==
    /\ alive /\ pc = "save_best"
    /\ IF Truthy(args.output_dir) /\ IsBest(epoch_acc, best_acc)
       THEN /\ fs' = [fs EXCEPT
                         !.ckpt = {Checkpoint(epoch)},
                         !.onnx = {Export("model_without_ddp", epoch)}]
            /\ last_ckpt' = {Checkpoint(epoch)}
            /\ best_acc' = epoch_acc
       ELSE UNCHANGED <<fs, last_ckpt, best_acc>>
    /\ epoch' = epoch + 1
    /\ pc' = "loop"
    /\ UNCHANGED <<args, alive, err, logger, built, restored, epoch_acc,
                   sampler_epoch, trained, lr_steps, evals, hist, others>>

\* logger.close() and the elapsed-time message
Finish ==
    /\ alive /\ pc = "finish"
    /\ logger' = "closed"
    /\ pc' = "done"
    /\ UNCHANGED <<args, alive, err, built, restored, loopVars, outVars,
                   others>>

\* the process is terminated while an epoch is in progress
InEpoch == pc \in {"train", "lr_step", "evaluate", "evaluate_ema", "save",
                   "save_best"}
Kill ==
    /\ alive /\ InEpoch
    /\ alive' = FALSE
    /\ UNCHANGED <<args, pc, err, logger, built, restored, loopVars, outVars,
                   others>>

Next ==
    \/ Setup
    \/ InitDistributedMode
    \/ CheckModes
    \/ LoadData
    \/ CreateModel
    \/ Pruning
    \/ Quantization
    \/ Optimizer
    \/ LrScheduler
    \/ Wrap
    \/ Resume
    \/ TestOnly
    \/ Loop
    \/ TrainOneEpoch
    \/ LrStep
    \/ Evaluate
    \/ EvaluateEma
    \/ Save
    \/ SaveBest
    \/ Finish
    \/ Kill

\* --- configurations: every stage of main, short runs ---------------------
ConfigArgs ==
    [output_dir : {S_empty, S_dot},
     weights : {DefaultWeights, S_path_enum},
     weights_url : {Unset},
     weights_enum : {Unset},
     distributed : {0},
     parallel : {0, 1},
     test_only : BOOLEAN,
     pruning : {0, PRUNING_LEGACY, PRUNING_FX},
     quantization : {0},
     opt : {S_sgd, S_SGD, S_sgd_nesterov, S_adamw, S_adam},
     lr_scheduler : {S_steplr, S_StepLR, S_cosineannealinglr, S_plateau},
     lr_warmup_epochs : {0, 1},
     lr_warmup_method : {S_constant, S_linear, S_cosine},
     model_ema : BOOLEAN,
     amp : {FALSE},
     resume : {S_empty, S_ckpt},
     start_epoch : {0},
     epochs : {1}]

Init == InitMain(ConfigArgs, {0, 1},
                 [epoch : {0}, model_ema : BOOLEAN, scaler : {FALSE}])

Spec == Init /\ [][Next]_vars

\* --- training runs: one valid configuration, up to MaxEpochs epochs ------
TrainArgs ==
    [output_dir : {S_empty, S_dot},
     weights : {S_enum},
     weights_url : {Unset},
     weights_enum : {Unset},
     distributed : {0},
     parallel : {0},
     test_only : {FALSE},
     pruning : {0},
     quantization : {0},
     opt : {S_sgd},
     lr_scheduler : {S_steplr},
     lr_warmup_epochs : {0},
     lr_warmup_method : {S_constant},
     model_ema : BOOLEAN,
     amp : {FALSE},
     resume : {S_empty, S_ckpt},
     start_epoch : {0, 2},
     epochs : 1..MaxEpochs]

InitTrain == InitMain(TrainArgs, {0},
                      [epoch : (MaxEpochs - 3)..MaxEpochs,
                       model_ema : BOOLEAN, scaler : {FALSE}])

SpecTrain == InitTrain /\ [][Next]_vars

\* --- the training loop, single-process and distributed, a few epochs -----
LoopArgs ==
    [output_dir : {S_empty, S_dot},
     weights : {S_enum},
     weights_url : {Unset},
     weights_enum : {Unset},
     distributed : {0},
     parallel : {0},
     test_only : {FALSE},
     pruning : {0},
     quantization : {0},
     opt : {S_sgd},
     lr_scheduler : {S_steplr},
     lr_warmup_epochs : {0},
     lr_warmup_method : {S_constant},
     model_ema : BOOLEAN,
     amp : {FALSE},
     resume : {S_empty, S_ckpt},
     start_epoch : {0},
     epochs : {1, 2, 3}]

InitLoop == InitMain(LoopArgs, {0, 1},
                     [epoch : {0, 1}, model_ema : {TRUE}, scaler : {FALSE}])

SpecLoop == InitLoop /\ [][Next]_vars

\* ------------------------------------------------------------------------
\* split_weights on its own: every specifier up to MaxSpecLen characters
\* ------------------------------------------------------------------------
SpecAlphabet == {",", " ", "p", "e"}
StringsUpTo(n) == UNION {[1..k -> SpecAlphabet] : k \in 0..n}
\* strings is_url_or_file may or may not accept, depending on the files present
PathCandidates == {<<"p">>, <<"p", " ">>, <<"p", "p">>}

IdleEnv == resume_file = NoResumeFile /\ dist_env = 0 /\ argv = <<>>

InitSplit ==
    /\ sw_in \in StringsUpTo(MaxSpecLen)
    /\ sw_out = <<Unset, Unset>>
    /\ url_or_file \in SUBSET PathCandidates
    /\ args = <<>>
    /\ IdleEnv
    /\ IdleMain
    /\ IdleCoco
    /\ IdleCache
    /\ IdleEpoch

SplitWeights ==
    /\ sw_out = <<Unset, Unset>>
    /\ sw_out' = split_weights(sw_in)
    /\ UNCHANGED <<sw_in, envVars, mainVars, cocoVars, cacheVars, epochVars>>

NextSplit == SplitWeights

SpecSplit == InitSplit /\ [][NextSplit]_vars

\* ------------------------------------------------------------------------
\* COCOSegmentation
\* ------------------------------------------------------------------------
\* optional integer arguments: {} is None, {n} is n
NoneInt == {}
IsNone(x) == x = {}
Val(x) == CHOOSE v \in x : TRUE

DefaultNumClasses == 80
VocNumClasses == 21
AreaThreshold == 1000
VocCategories == <<0, 5, 2, 16, 9, 44, 6, 3, 17, 62, 21, 67, 18, 19, 4, 1,
                   64, 20, 63, 7, 72>>

Range(s) == {s[i] : i \in 1..Len(s)}
RECURSIVE SumAreas(_)
SumAreas(anno) == IF anno = <<>> THEN 0
                  ELSE Head(anno).area + SumAreas(Tail(anno))

\* range(num_classes) as a sequence
PyRange(n) == [i \in 1..(IF n > 0 THEN n ELSE 0) |-> i - 1]

\* self.categories
Categories(num_classes_arg) ==
    LET num_classes == IF IsNone(num_classes_arg) THEN DefaultNumClasses
                       ELSE Val(num_classes_arg)
    IN  IF num_classes = VocNumClasses THEN VocCategories
        ELSE PyRange(num_classes)

\* coco_dataset.getImgIds()
getImgIds == [i \in 1..NumImgs |-> i]

\* coco_dataset.loadAnns(coco_dataset.getAnnIds(imgIds=img_id, iscrowd=None))
RECURSIVE AnnsOf(_, _)
AnnsOf(anns, img_id) ==
    IF anns = <<>> THEN <<>>
    ELSE (IF Head(anns).image_id = img_id THEN <<Head(anns)>> ELSE <<>>)
         \o AnnsOf(Tail(anns), img_id)

RECURSIVE FilterCats(_, _)
FilterCats(anno, categories) ==
    IF anno = <<>> THEN <<>>
    ELSE (IF Head(anno).category_id \in Range(categories)
          THEN <<Head(anno)>> ELSE <<>>)
         \o FilterCats(Tail(anno), categories)

_has_valid_annotation_m(anno) ==
    IF Len(anno) = 0 THEN FALSE
    ELSE SumAreas(anno) >= AreaThreshold

_has_valid_annotation(anno) ==
    IF Len(anno) = 0 THEN FALSE
    ELSE SumAreas(anno) > AreaThreshold

RECURSIVE _remove_images_without_annotations(_, _, _)
_remove_images_without_annotations(img_ids, anns, categories) ==
    IF img_ids = <<>> THEN <<>>
    ELSE LET img_id == Head(img_ids)
             all == AnnsOf(anns, img_id)
             anno == IF Len(categories) > 0
                     THEN FilterCats(all, categories) ELSE all
         IN  (IF _has_valid_annotation(anno) THEN <<img_id>> ELSE <<>>)
             \o _remove_images_without_annotations(Tail(img_ids), anns,
                                                   categories)

\* random.seed(int(shuffle)); random.shuffle(ids)
Shuffled(ids, seed) ==
    LET InList(k) == k <= Len(ids)
        p == SelectSeq(rng[seed], InList)
    IN  [i \in 1..Len(ids) |-> ids[p[i]]]

Truncated_m(ids, n) ==
    SubSeq(ids, 1, IF n + 1 < Len(ids) THEN n + 1 ELSE Len(ids))
\* ids[:n] for n >= 0
Truncated(ids, n) == SubSeq(ids, 1, IF n < Len(ids) THEN n ELSE Len(ids))

ImagePath(img_id) == <<"image_dir", img_id>>

\* COCOSegmentation.__init__ for a root that has an annotations folder
Construct(c) ==
    LET categories == Categories(c.num_classes)
        filtered == _remove_images_without_annotations(getImgIds, c.anns,
                                                       categories)
        shuffled == IF c.shuffle # 0 THEN Shuffled(filtered, c.shuffle)
                    ELSE filtered
        img_ids == IF IsNone(c.num_imgs) THEN shuffled
                   ELSE Truncated(shuffled, Val(c.num_imgs))
        imgs == [i \in 1..Len(img_ids) |-> ImagePath(img_ids[i])]
    IN  [categories |-> categories,
         img_ids |-> img_ids,
         coco_imgs |-> IF IsNone(c.num_imgs) THEN Range(getImgIds)
                       ELSE Range(img_ids),
         imgs |-> imgs,
         num_imgs |-> Len(imgs)]

CocoCatIds == {1, 8, 80}
CocoAreas == {500, 1000, 1001}
CocoNumClasses == {NoneInt, {0}, {2}, {VocNumClasses}, {DefaultNumClasses}}
ShuffleSeeds == {1}
Annotation == [image_id : 1..NumImgs, category_id : CocoCatIds,
               area : CocoAreas]
\* annotation files list the annotations image by image; getAnnIds selects by
\* image, so the interleaving of different images' annotations is immaterial
AnnotationFiles ==
    {f \in UNION {[1..k -> Annotation] : k \in 0..MaxAnns} :
        \A i \in 1..(Len(f) - 1) : f[i].image_id <= f[i + 1].image_id}
Perms(n) == {p \in [1..n -> 1..n] : \A i, j \in 1..n : p[i] = p[j] => i = j}
Rngs == [ShuffleSeeds -> Perms(NumImgs)]

InitCoco ==
    /\ coco \in [anns : AnnotationFiles,
                 num_classes : CocoNumClasses,
                 shuffle : {0} \cup ShuffleSeeds,
                 num_imgs : {NoneInt, {0}, {1}}]
    /\ rng \in (IF coco.shuffle # 0 THEN Rngs
                ELSE {[s \in ShuffleSeeds |-> [i \in 1..NumImgs |-> i]]})
    /\ ds = NoDataset
    /\ item = NoItem
    /\ ops = {}
    /\ url_or_file = {}
    /\ args = <<>>
    /\ IdleEnv
    /\ IdleMain
    /\ IdleSplit
    /\ IdleCache
    /\ IdleEpoch

CocoInit ==
    /\ ds = NoDataset
    /\ ds' = Construct(coco)
    /\ UNCHANGED <<coco, rng, item, ops, envVars, mainVars, splitVars,
                   cacheVars, epochVars>>

NextCoco == CocoInit

SpecCoco == InitCoco /\ [][NextCoco]_vars

\* ------------------------------------------------------------------------
\* COCOSegmentation.__getitem__
\* ------------------------------------------------------------------------
Uint8Range == 256           \* masks are np.uint8
IgnoreLabel == 255
Pixels == 1..NumPixels

\* self.categories.index(category_id), 0-based
IndexOf(categories, id) ==
    (CHOOSE i \in 1..Len(categories) :
        categories[i] = id /\ \A j \in 1..(i - 1) : categories[j] # id) - 1

\* _filter_and_remap_categories with remap=True
_filter_and_remap_categories(anno, categories) ==
    LET kept == FilterCats(anno, categories)
    IN  [i \in 1..Len(kept) |->
            [kept[i] EXCEPT !.category_id = IndexOf(categories, @)]]

\* one uint8 mask per annotation, 1 where the decoded polygons cover the pixel
_convert_poly_to_mask(anno) ==
    [i \in 1..Len(anno) |-> [p \in Pixels |-> IF p \in anno[i].mask
                                              THEN 1 ELSE 0]]

\* np.array(cats, dtype=masks.dtype) for a value that uint8 cannot hold:
\* older numpy wraps it, newer numpy raises OverflowError
CatsOverflow(anno) ==
    \E i \in 1..Len(anno) : anno[i].category_id >= Uint8Range

\* (masks * cats).max(axis=0), then 255 where masks.sum(0) > 1
_convert_polys_to_mask(anno) ==
    LET masks == _convert_poly_to_mask(anno)
        cats == [i \in 1..Len(anno) |-> anno[i].category_id % Uint8Range]
        covering(p) == Cardinality({i \in 1..Len(anno) : masks[i][p] = 1})
    IN  IF Len(anno) > 0
        THEN [p \in Pixels |->
                IF covering(p) > 1 THEN IgnoreLabel
                ELSE Max({(masks[i][p] * cats[i]) % Uint8Range :
                             i \in 1..Len(anno)})]
        ELSE [p \in Pixels |-> 0]

At_m(seq, idx) == seq[1]
\* seq[idx] for a Python index, negative ones counting from the end
At(seq, idx) == seq[(IF idx < 0 THEN idx + Len(seq) ELSE idx) + 1]
ValidIndices == (0 - ds.num_imgs)..(ds.num_imgs - 1)

LabelOps == {"Image.open", "getAnnIds", "loadAnns"}
DecodeOps == {"frPyObjects", "decode"}

\* __getitem__(idx, with_label)
GetItem ==
    /\ ds # NoDataset
    /\ \E idx \in ValidIndices, with_label \in BOOLEAN :
          IF with_label
          THEN LET all == AnnsOf(coco.anns, At(ds.img_ids, idx))
                   anno == _filter_and_remap_categories(all, ds.categories)
               IN  \E raises \in IF CatsOverflow(anno) THEN BOOLEAN
                                 ELSE {FALSE} :
                      /\ item' = IF raises
                                 THEN [kind |-> "OverflowError", idx |-> idx]
                                 ELSE [kind |-> "labelled", idx |-> idx,
                                       image |-> At(ds.imgs, idx),
                                       target |->
                                           _convert_polys_to_mask(anno)]
                      /\ ops' = LabelOps \cup
                                (IF Len(anno) > 0 THEN DecodeOps ELSE {})
          ELSE /\ item' = [kind |-> "path", idx |-> idx,
                           path |-> At(ds.imgs, idx)]
               /\ ops' = {}
    /\ UNCHANGED <<coco, rng, ds, envVars, mainVars, splitVars, cacheVars,
                   epochVars>>

\* annotation files with segmentations, every annotation large enough
ItemImgIds == {1, 2}
ItemCatIds == {1, 44, 260}
ItemNumClasses == {{0}, {VocNumClasses}, {DefaultNumClasses}, {300}}
ItemAnnotation == [image_id : ItemImgIds, category_id : ItemCatIds,
                   area : {AreaThreshold + 1}, mask : SUBSET Pixels]
ItemAnnCounts == {0, 1, 2}      \* two annotations can overlap
ItemAnnotationFiles ==
    {f \in UNION {[1..k -> ItemAnnotation] : k \in ItemAnnCounts} :
        \A i \in 1..(Len(f) - 1) : f[i].image_id <= f[i + 1].image_id}

InitItem ==
    /\ coco \in [anns : ItemAnnotationFiles,
                 num_classes : ItemNumClasses,
                 shuffle : {0},
                 num_imgs : {NoneInt}]
    /\ rng = [s \in ShuffleSeeds |-> [i \in 1..NumImgs |-> i]]
    /\ ds = NoDataset
    /\ item = NoItem
    /\ ops = {}
    /\ url_or_file = {}
    /\ args = <<>>
    /\ IdleEnv
    /\ IdleMain
    /\ IdleSplit
    /\ IdleCache
    /\ IdleEpoch

NextItem == CocoInit \/ GetItem

SpecItem == InitItem /\ [][NextItem]_vars

\* ------------------------------------------------------------------------
\* load_data and the dataset cache
\* ------------------------------------------------------------------------
\* paths are sequences of components, absolute ones starting with "/"
Cwds == {<<"/">>, <<"/", "x">>}
DataPaths == {<<"/", "a">>, <<"a">>}
\* os.path.join(args.data_path, "train") and (.., "val")
TrainDir(data_path) == Append(data_path, "train")
ValDir(data_path) == Append(data_path, "val")
DirStrings == {TrainDir(d) : d \in DataPaths} \cup
              {ValDir(d) : d \in DataPaths}
\* os.path.abspath in a process whose working directory is cwd
abspath(cwd, path) == IF path[1] = "/" THEN path ELSE cwd \o path

_get_cache_path_m(filepath) == <<"imagefolder", "pt">>
\* ~/.torch/vision/datasets/imagefolder/<sha1(filepath)[:10]>.pt; the digest
\* is taken of the string given and told apart for different strings
_get_cache_path(filepath) == <<"imagefolder", filepath, "pt">>

\* ImageFolder / CocoClassification over the directory, with its transform
BuildDataset(cwd, dir, transform) ==
    [samples |-> abspath(cwd, dir), transform |-> transform]

\* one half of load_data: the dataset of dir, through the cache c
LoadOne(c, cwd, dir, role, transform, cache_dataset) ==
    LET cache_path == _get_cache_path(dir)
    IN  IF cache_dataset /\ cache_path \in DOMAIN c
        THEN [cache |-> c, dataset |-> c[cache_path].dataset,
              constructed |-> {}, read |-> {cache_path}, written |-> {}]
        ELSE LET dataset == BuildDataset(cwd, dir, transform)
             IN  IF cache_dataset
                 THEN [cache |-> (cache_path :> [dataset |-> dataset,
                                                 path |-> dir]) @@ c,
                       dataset |-> dataset, constructed |-> {role},
                       read |-> {}, written |-> {cache_path}]
                 ELSE [cache |-> c, dataset |-> dataset,
                       constructed |-> {role}, read |-> {}, written |-> {}]

\* load_data(traindir, valdir, args) in a new process
LoadDataCall ==
    \E cwd \in Cwds, traindir \in DirStrings, valdir \in DirStrings,
       cache_dataset \in BOOLEAN :
        LET tr == LoadOne(cache, cwd, traindir, "train", "train",
                          cache_dataset)
            va == LoadOne(tr.cache, cwd, valdir, "val", "eval",
                          cache_dataset)
        IN  /\ cache' = va.cache
            /\ ld' = [called |-> TRUE, cwd |-> cwd, traindir |-> traindir,
                      valdir |-> valdir, cache_dataset |-> cache_dataset,
                      dataset |-> tr.dataset, dataset_test |-> va.dataset,
                      constructed |-> tr.constructed \cup va.constructed,
                      read |-> tr.read \cup va.read,
                      written |-> tr.written \cup va.written]
            /\ UNCHANGED <<envVars, mainVars, splitVars, cocoVars, epochVars>>

InitCache ==
    /\ IdleCache
    /\ IdleEpoch
    /\ url_or_file = {}
    /\ args = <<>>
    /\ IdleEnv
    /\ IdleMain
    /\ IdleSplit
    /\ IdleCoco

NextCache == LoadDataCall

SpecCache == InitCache /\ [][NextCache]_vars

\* ------------------------------------------------------------------------
\* train_one_epoch and evaluate, one call over a loader of dataset_len
\* batches
\* ------------------------------------------------------------------------
\* a float factor num/den with den a power of two, so that the product
\* factor * dataset_len is exact
Factors == {<<0, 1>>, <<1, 4>>, <<1, 2>>, <<3, 4>>, <<1, 1>>, <<3, 2>>}
EmaSteps == {1, 2, 3}           \* --model-ema-steps
EpochChoices == {0, 1, 2}       \* epoch and --lr-warmup-epochs

\* Python's round() of num/den: to the nearest integer, halves to the even
round(num, den) ==
    LET k == num \div den
        r == num % den
    IN  IF 2 * r < den THEN k
        ELSE IF 2 * r > den THEN k + 1
        ELSE IF k % 2 = 0 THEN k ELSE k + 1

\* args.<x>_epoch_size_factor and i >= round(args.<x>_epoch_size_factor * dataset_len)
Break(factor, i, dataset_len) ==
    factor[1] # 0 /\ i >= round(factor[1] * dataset_len, factor[2])

\* model_ema and i % args.model_ema_steps == 0
EmaDue_m(model_ema, i, model_ema_steps) ==
    model_ema /\ (i + 1) % model_ema_steps = 0

EmaDue(model_ema, i, model_ema_steps) ==
    model_ema /\ i % model_ema_steps = 0

\* epoch < args.lr_warmup_epochs
InWarmup(e, lr_warmup_epochs) == e < lr_warmup_epochs

\* the end of a loop body: break, the next batch, or the loader is exhausted
AfterBatch(factor) ==
    IF Break(factor, ep.i, ep.dataset_len) \/ ep.i + 1 >= ep.dataset_len
    THEN [ep EXCEPT !.pc = "returned"]
    ELSE [ep EXCEPT !.i = @ + 1]

\* one iteration of train_one_epoch's loop
TrainBatch ==
    /\ ep.fn = "train_one_epoch" /\ ep.pc = "batch"
    /\ LET due == EmaDue(ep.model_ema, ep.i, ep.model_ema_steps)
           reset == due /\ InWarmup(ep.epoch, ep.lr_warmup_epochs)
           n == IF reset THEN 0
                ELSE IF due THEN ep.n_averaged + 1 ELSE ep.n_averaged
       IN  /\ calls' = calls \o <<<<"optimizer.step", ep.i>>>> \o
                       (IF due THEN <<<<"update_parameters", ep.i>>>>
                        ELSE <<>>) \o
                       (IF reset THEN <<<<"n_averaged.fill_", ep.i>>>>
                        ELSE <<>>) \o
                       <<<<"metric_logger.update", ep.i>>>>
           /\ ep' = [AfterBatch(ep.train_epoch_size_factor)
                         EXCEPT !.n_averaged = n]
    /\ UNCHANGED <<envVars, mainVars, splitVars, cocoVars, cacheVars>>

\* one iteration of evaluate's loop
EvaluateBatch ==
    /\ ep.fn = "evaluate" /\ ep.pc = "batch"
    /\ calls' = Append(calls, <<"metric_logger.update", ep.i>>)
    /\ ep' = AfterBatch(ep.val_epoch_size_factor)
    /\ UNCHANGED <<envVars, mainVars, splitVars, cocoVars, cacheVars>>

Started(call) ==
    [call EXCEPT !.pc = IF call.dataset_len > 0 THEN "batch" ELSE "returned"]

TrainCalls ==
    {c \in [fn : {"train_one_epoch"}, dataset_len : 0..MaxBatches,
            train_epoch_size_factor : Factors, epoch : EpochChoices,
            lr_warmup_epochs : EpochChoices, model_ema : BOOLEAN,
            model_ema_steps : EmaSteps, n_start : {0, 2},
            n_averaged : {0, 2}, i : {0}, pc : {"batch"}] :
        /\ c.n_averaged = c.n_start
        /\ ~c.model_ema => c.n_start = 0 /\ c.model_ema_steps = 1
        /\ InWarmup(c.epoch, c.lr_warmup_epochs) => c.n_start = 0}

EvaluateCalls ==
    [fn : {"evaluate"}, dataset_len : 0..MaxBatches,
     val_epoch_size_factor : Factors, i : {0}, pc : {"batch"}]

InitEpoch ==
    /\ ep \in {Started(c) : c \in TrainCalls \cup EvaluateCalls}
    /\ calls = <<>>
    /\ url_or_file = {}
    /\ args = <<>>
    /\ IdleEnv
    /\ IdleMain
    /\ IdleSplit
    /\ IdleCoco
    /\ IdleCache

NextEpoch == TrainBatch \/ EvaluateBatch

SpecEpoch == InitEpoch /\ [][NextEpoch]_vars

\* ------------------------------------------------------------------------
\* Properties of the training loop (SpecTrain)
\* ------------------------------------------------------------------------
OutputEnabled == args.output_dir # <<>>
\* first epoch of this run, and the epochs whose loop body has finished
RunStart == IF trained = <<>> THEN epoch ELSE trained[1]
\* a run from epoch 0 that is neither resumed nor test-only
FreshRun == args.resume = <<>> /\ args.start_epoch = 0 /\ ~args.test_only
\* epochs whose numbered save (if any) has been executed
PastNumberedSave == {e \in 0..(args.epochs - 1) :
                        e < epoch \/ (e = epoch /\ pc = "save_best")}
NumberedEpochs(E) == {e \in 0..(E - 1) : e = 0 \/ e >= E - 10}

\* C1: in a run from epoch 0 with output enabled, checkpoint_<e>.pth exists
\* exactly for the finished epochs e with e = 0 or e >= E - 10, records epoch
\* e, and model_<e>.onnx exists for exactly the same epochs; at the end the
\* numbered files are those of NumberedEpochs(E), which is every epoch when
\* E <= 10 and is epoch 0 and 80..89 for E = 90.
C1_NumberedRetention ==
    (FreshRun /\ OutputEnabled) =>
        /\ DOMAIN fs.ckpt_n = PastNumberedSave \cap NumberedEpochs(args.epochs)
        /\ DOMAIN fs.onnx_n = DOMAIN fs.ckpt_n
        /\ \A e \in DOMAIN fs.ckpt_n :
              fs.ckpt_n[e].epoch = e /\ fs.onnx_n[e].epoch = e
        /\ (pc = "done" =>
              /\ DOMAIN fs.ckpt_n = NumberedEpochs(args.epochs)
              /\ (args.epochs <= 10 =>
                     DOMAIN fs.ckpt_n = 0..(args.epochs - 1)))
        /\ {e \in 0..89 : IsNumbered(e, 90)} = {0} \cup (80..89)

\* a finished 12-epoch run: epoch 1 has no numbered files, 0 and 2..11 have
C1_Witness ==
    /\ FreshRun /\ OutputEnabled /\ pc = "done"
    /\ args.epochs = 12
    /\ DOMAIN fs.ckpt_n = {0} \cup (2..11)
    /\ DOMAIN fs.onnx_n = {0} \cup (2..11)

\* the epoch of the run whose reported accuracy is highest, the latest of
\* them on a tie, over the epochs evaluated so far
BestEpoch ==
    LET m == Max(Range(hist))
        i == Max({j \in 1..Len(hist) : hist[j] = m})
    IN  RunStart + i - 1

BetweenEpochs == pc \in {"loop", "finish", "done"}

C2_State ==
    (OutputEnabled /\ ~args.test_only /\ BetweenEpochs /\ hist # <<>>) =>
        /\ fs.ckpt # {} /\ \A c \in fs.ckpt : c.epoch = BestEpoch
        /\ fs.onnx # {} /\ \A x \in fs.onnx : x.epoch = BestEpoch
        /\ best_acc = Max(Range(hist))

\* C2: after every completed epoch with output enabled, checkpoint.pth and
\* model.onnx are those of the epoch with the highest compared accuracy so
\* far in the run (the EMA model's accuracy when EMA is on), the latest such
\* epoch on a tie, and best_acc never decreases.
C2_RollingBest == [](C2_State) /\ [][best_acc' >= best_acc]_vars

\* EMA run: epochs s, s+1 tie, epoch s+2 is worse; checkpoint.pth is of s+1
C2_Witness ==
    /\ OutputEnabled /\ args.model_ema /\ pc = "loop"
    /\ Len(hist) = 3 /\ hist[1] = hist[2] /\ hist[3] < hist[2]
    /\ \E c \in fs.ckpt : c.epoch = epoch - 2

\* a kill during epoch k of a run that has finished at least epoch k-1
KilledInEpoch == ~alive /\ OutputEnabled /\ epoch >= 1 /\ epoch > RunStart
AccOf(j) == hist[j - RunStart + 1]
\* epochs before k whose loop body wrote a checkpoint file
Kept(j) == \/ j = 0 \/ j >= args.epochs - 10
           \/ \A i \in RunStart..(j - 1) : AccOf(i) <= AccOf(j)

Resumed ==
    /\ args.resume # <<>> /\ ~args.test_only
    /\ pc \notin {"start", "init_distributed_mode", "check_modes", "load_data",
                  "create_model", "pruning", "quantization", "optimizer",
                  "lr_scheduler", "wrap", "resume", "aborted"}
C4_Resume ==
    Resumed =>
        LET e == resume_file.epoch
            E == args.epochs
        IN  /\ args.start_epoch = e + 1
            /\ \A i \in 1..Len(trained) : trained[i] = e + i /\ trained[i] < E
            /\ (pc = "done" =>
                  /\ Len(trained) = (IF E - e - 1 > 0 THEN E - e - 1 ELSE 0)
                  /\ logger = "closed" /\ err = NoErr)
            /\ (e + 1 >= E =>
                  /\ trained = <<>> /\ fs = EmptyFs /\ last_ckpt = {}
                  /\ pc \in {"test_only", "loop", "finish", "done"})

\* resumed from a checkpoint written three epochs before the end: the two
\* epochs after it are trained, whatever --start-epoch was
C4_Witness ==
    /\ Resumed /\ pc = "done" /\ resume_file.epoch = MaxEpochs - 3
    /\ args.epochs = MaxEpochs /\ args.start_epoch = MaxEpochs - 2
    /\ trained = <<MaxEpochs - 2, MaxEpochs - 1>>

\* resumed from a checkpoint of the last epoch: nothing left to train
C4_WitnessNothingLeft ==
    /\ Resumed /\ pc = "done" /\ resume_file.epoch + 1 >= args.epochs
    /\ trained = <<>>

\* ------------------------------------------------------------------------
\* Properties of the configuration stages (Spec)
\* ------------------------------------------------------------------------
BeforeLoadData == {"start", "init_distributed_mode", "check_modes"}
BeforeTraining == BeforeLoadData \cup
    {"load_data", "create_model", "pruning", "quantization", "optimizer",
     "lr_scheduler"}
NothingRun ==
    /\ trained = <<>> /\ evals = <<>> /\ hist = <<>> /\ lr_steps = 0
    /\ fs = EmptyFs /\ last_ckpt = {}
BothModes == dist_env # 0 /\ args.parallel # 0

\* C5: a configuration whose distributed flag (as init_distributed_mode
\* leaves it) and parallel flag are both set never gets past the mode check:
\* main ends with an uncaught error, load_data is never called, no dataset,
\* data loader or model is constructed and no checkpoint or export is
\* written; when a weights specifier is given the error is the mode error.
C5_ModesFatal ==
    BothModes =>
        /\ pc \in BeforeLoadData \cup {"aborted"}
        /\ pc = "aborted" =>
              /\ err # NoErr
              /\ args.weights # None => err = "RuntimeError_modes"
        /\ built \cap {"dataset", "data_loader", "model"} = {}
        /\ NothingRun

C5_Witness ==
    /\ BothModes /\ pc = "aborted" /\ err = "RuntimeError_modes"
    /\ args.distributed # 0 /\ built = {}

\* the names the three chains of main accept
SupportedOptimizer(opt) ==
    \/ startswith(lower(opt), S_sgd)
    \/ lower(opt) \in {S_rmsprop, S_adamw}
SupportedScheduler(name) ==
    lower(name) \in {S_steplr, S_cosineannealinglr, S_exponentiallr}
SupportedWarmup(method) == method \in {S_linear, S_constant}

ConfigErrorOutcome ==
    /\ pc \in BeforeTraining \cup {"aborted"}
    /\ pc = "aborted" => err # NoErr
    /\ err = "RuntimeError_optimizer" => "model" \in built
    /\ NothingRun

\* C6 as stated: each of the five configuration errors, the warmup method
\* whatever the number of warmup epochs, stops main with an error before
\* any training epoch, evaluation, checkpoint write or export; the optimizer
\* error comes after the model is constructed.
C6_Original ==
    (\/ BothModes
     \/ args.pruning = PRUNING_LEGACY
     \/ ~SupportedOptimizer(args.opt)
     \/ ~SupportedScheduler(args.lr_scheduler)
     \/ ~SupportedWarmup(args.lr_warmup_method)) => ConfigErrorOutcome

\* C6 amended: the same, the warmup method being an error only when the
\* number of warmup epochs is positive; optimizer and scheduler names are
\* compared in lower case, any name starting with sgd being supported.
C6_ConfigErrors ==
    (\/ BothModes
     \/ args.pruning = PRUNING_LEGACY
     \/ ~SupportedOptimizer(args.opt)
     \/ ~SupportedScheduler(args.lr_scheduler)
     \/ /\ args.lr_warmup_epochs > 0
        /\ ~SupportedWarmup(args.lr_warmup_method)) => ConfigErrorOutcome

\* the warmup error, the last of the five, raised with everything before it
\* constructed
C6_Witness ==
    /\ pc = "aborted" /\ err = "RuntimeError_warmup"
    /\ args.lr_warmup_epochs > 0 /\ args.lr_warmup_method = S_cosine
    /\ {"model", "optimizer"} \subseteq built /\ NothingRun

\* the optimizer error, raised once the model exists
C6_WitnessOptimizer ==
    /\ pc = "aborted" /\ err = "RuntimeError_optimizer"
    /\ args.opt = S_adam /\ "model" \in built /\ "optimizer" \notin built

\* C7: a test-only run that returns has evaluated exactly once, the EMA
\* model when EMA is enabled and the plain model otherwise, has exported to
\* model_test.onnx the model it evaluated, and has run no training epoch,
\* no scheduler step and written no checkpoint.
C7_TestOnly ==
    (args.test_only /\ pc = "done") =>
        /\ Len(evals) = 1
        /\ evals[1] = (IF args.model_ema THEN "model_ema" ELSE "model")
        /\ fs.onnx_test # {}
        /\ \A x \in fs.onnx_test : x.model = Unwrapped(evals[1])
        /\ trained = <<>> /\ lr_steps = 0
        /\ fs.ckpt = {} /\ fs.ckpt_n = <<>> /\ last_ckpt = {}

\* C8: with the weights specifier left at its default, split_weights yields
\* neither a URL/file source nor an enum source and main goes on to
\* init_distributed_mode; no error comes from the absent specifier.
C8_DefaultWeights ==
    (args.weights = DefaultWeights /\ pc # "start") =>
        /\ err # "AttributeError"
        /\ args.weights_url = None /\ args.weights_enum = None
        /\ pc = "aborted" => err # NoErr

\* ------------------------------------------------------------------------
\* Properties of split_weights (SpecSplit)
\* ------------------------------------------------------------------------
Min(S) == CHOOSE x \in S : \A y \in S : x <= y

\* str.rstrip() and str.strip()
RECURSIVE rstrip(_)
rstrip(w) == IF w # <<>> /\ w[Len(w)] \in Whitespace
             THEN rstrip(SubSeq(w, 1, Len(w) - 1)) ELSE w
strip(w) == rstrip(lstrip(w))

SplitDone == sw_out # <<Unset, Unset>>
FullyTrimmed(s) == [i \in 1..Len(SplitComma(s)) |-> strip(SplitComma(s)[i])]
LeftTrimmed(s) == [i \in 1..Len(SplitComma(s)) |-> lstrip(SplitComma(s)[i])]
\* the first token of toks that is (recognised = TRUE) or is not
\* (recognised = FALSE) a URL or file path, None when there is none
FirstToken(toks, recognised) ==
    LET I == {i \in 1..Len(toks) : (toks[i] \in url_or_file) = recognised}
    IN  IF I = {} THEN None ELSE toks[Min(I)]
PathTokens(s) == SelectSeq(LeftTrimmed(s), IsUrl)
EnumTokens(s) == SelectSeq(LeftTrimmed(s), IsEnum)
\* specifiers that list the same path-like tokens in the same order and the
\* same enum-like tokens in the same order, interleaved in any way
RECURSIVE Join(_)
Join(toks) == IF Len(toks) = 1 THEN toks[1]
              ELSE toks[1] \o <<",">> \o Join(Tail(toks))
Permuted(s) ==
    LET raw == SplitComma(s)
    IN  {Join([i \in 1..Len(raw) |-> raw[p[i]]]) : p \in Perms(Len(raw))}
Reorderings(s) ==
    {t \in Permuted(s) :
        PathTokens(t) = PathTokens(s) /\ EnumTokens(t) = EnumTokens(s)}
OrderIndependent == \A t \in Reorderings(sw_in) : split_weights(t) = sw_out

\* C9 as stated: the pair returned is the first recognised and the first
\* unrecognised token, each trimmed of leading and trailing whitespace, None
\* standing for a missing one, whatever the relative order of the two kinds.
C9_Original ==
    SplitDone =>
        /\ sw_out = <<FirstToken(FullyTrimmed(sw_in), TRUE),
                      FirstToken(FullyTrimmed(sw_in), FALSE)>>
        /\ OrderIndependent

\* C9 amended: the same with tokens trimmed of leading whitespace only;
\* trailing whitespace is part of the token that is classified and returned.
C9_SplitWeights ==
    SplitDone =>
        /\ sw_out = <<FirstToken(LeftTrimmed(sw_in), TRUE),
                      FirstToken(LeftTrimmed(sw_in), FALSE)>>
        /\ OrderIndependent

\* "e, p": the enum first, the path after a blank; the reordering " p,e"
\* is among those compared
C9_Witness ==
    /\ SplitDone /\ sw_in = <<"e", ",", " ", "p">> /\ url_or_file = {<<"p">>}
    /\ sw_out = << <<"p">>, <<"e">> >>
    /\ <<" ", "p", ",", "e">> \in Reorderings(sw_in)

\* " e ": the trailing blank stays in the enum that is returned
C9_WitnessTrailing ==
    /\ SplitDone /\ sw_in = <<" ", "e", " ">>
    /\ sw_out = <<None, <<"e", " ">> >>

\* ------------------------------------------------------------------------
\* Properties of COCOSegmentation (SpecCoco)
\* ------------------------------------------------------------------------
Constructed == ds.num_imgs # -1
RECURSIVE AreaOver(_, _)
AreaOver(anns, I) ==
    IF I = {} THEN 0
    ELSE LET i == CHOOSE j \in I : TRUE
         IN  anns[i].area + AreaOver(anns, I \ {i})
\* the annotations of image img whose category is in cats
InSet(img, cats) ==
    {i \in DOMAIN coco.anns : /\ coco.anns[i].image_id = img
                              /\ coco.anns[i].category_id \in cats}
Qualifies(img, cats) ==
    /\ InSet(img, cats) # {}
    /\ AreaOver(coco.anns, InSet(img, cats)) > 1000
Retained == Range(ds.img_ids)

\* C10 as stated: whatever the category count, an image is retained exactly
\* when it has an annotation in the configured category set and the areas of
\* its in-set annotations sum to more than 1000.
C10_Original ==
    Constructed =>
        \A img \in 1..NumImgs :
            (img \in Retained) <=> Qualifies(img, Range(ds.categories))

\* C10 amended: the categories that count are the configured set when it is
\* not empty and every category when it is empty (a category count of 0 or
\* less); every retained image has such an annotation with areas summing to
\* more than 1000, is listed once, and, when no image cap is given, every
\* such image is retained.
C10_RetainedImages ==
    Constructed =>
        LET cats == IF Range(ds.categories) = {} THEN CocoCatIds
                    ELSE Range(ds.categories)
        IN  /\ \A img \in Retained : Qualifies(img, cats)
            /\ Cardinality(Retained) = Len(ds.img_ids)
            /\ IsNone(coco.num_imgs) =>
                  \A img \in 1..NumImgs : Qualifies(img, cats) =>
                                              img \in Retained

\* the 21-class table: image 1 with area 1001 in category 1 is retained,
\* image 2 with area 1000 is not
C10_Witness ==
    /\ Constructed /\ coco.num_classes = {VocNumClasses}
    /\ IsNone(coco.num_imgs)
    /\ coco.anns = <<[image_id |-> 1, category_id |-> 1, area |-> 1001],
                     [image_id |-> 2, category_id |-> 1, area |-> 1000]>>
    /\ ds.img_ids = <<1>>

\* the 21-class table: the only annotation of image 1 is of category 8,
\* which the table does not list
C10_WitnessOutside ==
    /\ Constructed /\ coco.num_classes = {VocNumClasses}
    /\ coco.anns = <<[image_id |-> 1, category_id |-> 8, area |-> 1001]>>
    /\ ds.img_ids = <<>>

\* a category count of 0: category 80 counts although no category is
\* configured
C10_WitnessNoCategories ==
    /\ Constructed /\ coco.num_classes = {0} /\ ds.categories = <<>>
    /\ coco.anns = <<[image_id |-> 1, category_id |-> 80, area |-> 1001]>>
    /\ 1 \in Retained

\* ------------------------------------------------------------------------
\* Properties of __getitem__ (SpecItem)
\* ------------------------------------------------------------------------
AccessedWithLabel == item.kind \in {"labelled", "OverflowError"}
AccessedImage == At(ds.img_ids, item.idx)
\* the annotations of the accessed image whose category is configured, and
\* those of them whose mask covers pixel p
InSetOfAccessed == InSet(AccessedImage, Range(ds.categories))
CoveringMasks(p) == {i \in InSetOfAccessed : p \in coco.anns[i].mask}
LabelMapAsClaimed ==
    /\ item.kind = "labelled"
    /\ \A p \in Pixels :
          /\ CoveringMasks(p) = {} => item.target[p] = 0
          /\ \A i \in CoveringMasks(p) :
                CoveringMasks(p) = {i} =>
                    /\ item.target[p] \in 0..(Len(ds.categories) - 1)
                    /\ ds.categories[item.target[p] + 1] =
                           coco.anns[i].category_id
          /\ Cardinality(CoveringMasks(p)) >= 2 =>
                item.target[p] = IgnoreLabel
          /\ item.target[p] \in
                 (0..(Len(ds.categories) - 1)) \cup {IgnoreLabel}

\* C11: every access with label returns a label map whose pixels are 0 where
\* no in-set mask covers them, the 0-based position of the category in the
\* category list where exactly one does, and 255 where two or more do; all
\* values are below the category count or are 255.
C11_LabelMap == AccessedWithLabel => LabelMapAsClaimed

\* the same for category lists that are not empty and whose positions fit
\* in a byte
C11_WithinByte ==
    (AccessedWithLabel /\ Len(ds.categories) \in 1..Uint8Range) =>
        LabelMapAsClaimed

\* 300 classes: category 260 is at position 260, which a uint8 cannot hold
C11_WitnessOverflow ==
    /\ AccessedWithLabel /\ coco.num_classes = {300}
    /\ coco.anns = <<[image_id |-> 1, category_id |-> 260, area |-> 1001,
                      mask |-> {1}]>>
    /\ item.kind = "labelled" => item.target[1] = 260 % Uint8Range

\* 21 classes, categories 44 and 1 on image 1, overlapping on pixel 1 only:
\* pixel 1 is 255 and pixel 2 is 5, the position of 44
C11_WitnessVoc ==
    /\ item.kind = "labelled" /\ coco.num_classes = {VocNumClasses}
    /\ coco.anns = <<[image_id |-> 1, category_id |-> 44, area |-> 1001,
                      mask |-> {1, 2}],
                     [image_id |-> 1, category_id |-> 1, area |-> 1001,
                      mask |-> {1}]>>
    /\ item.target[1] = IgnoreLabel /\ item.target[2] = 5

\* ------------------------------------------------------------------------
\* Properties of the construction order (SpecCoco)
\* ------------------------------------------------------------------------
\* the categories that count in the construction filter
FilterCategories == IF Range(ds.categories) = {} THEN CocoCatIds
                    ELSE Range(ds.categories)
QualifiesAtInit(img) == Qualifies(img, FilterCategories)
\* the F filtered identifiers, in the order getImgIds lists them
FilteredIds == SelectSeq(getImgIds, QualifiesAtInit)
IsPermutationOf(a, b) ==
    /\ Len(a) = Len(b)
    /\ \E q \in Perms(Len(b)) : a = [i \in 1..Len(b) |-> b[q[i]]]
CapOf(F) == IF IsNone(coco.num_imgs) THEN F
            ELSE Min({Val(coco.num_imgs), F})

\* C12: the retained sequence is the first min(N, F) identifiers of a
\* permutation of the filtered ones, that permutation being the one the seed
\* fixes (the filtered order itself without shuffling); with a cap the image
\* table of the annotation index holds exactly the retained identifiers; the
\* length is the number of retained identifiers and path i is the path of
\* identifier i.
C12_ShuffleAndCap ==
    Constructed =>
        LET order == IF coco.shuffle # 0
                     THEN Shuffled(FilteredIds, coco.shuffle)
                     ELSE FilteredIds
        IN  /\ IsPermutationOf(order, FilteredIds)
            /\ ds.img_ids = SubSeq(order, 1, CapOf(Len(FilteredIds)))
            /\ ~IsNone(coco.num_imgs) => ds.coco_imgs = Retained
            /\ ds.num_imgs = Len(ds.img_ids)
            /\ Len(ds.imgs) = Len(ds.img_ids)
            /\ \A i \in 1..Len(ds.img_ids) :
                  ds.imgs[i] = ImagePath(ds.img_ids[i])

\* both images pass the filter, the seed puts image 2 first, the cap is 1
C12_Witness ==
    /\ Constructed /\ coco.shuffle = 1 /\ coco.num_imgs = {1}
    /\ FilteredIds = <<1, 2>> /\ rng[1][1] = 2
    /\ ds.img_ids = <<2>> /\ ds.coco_imgs = {2} /\ ds.num_imgs = 1

\* ------------------------------------------------------------------------
\* Properties of access without label (SpecItem)
\* ------------------------------------------------------------------------
\* 1-based position of the accessed index in the lists of the dataset
AccessedPosition == IF item.idx < 0 THEN item.idx + ds.num_imgs + 1
                    ELSE item.idx + 1
C13_State ==
    item.kind = "path" =>
        /\ item.path = ds.imgs[AccessedPosition]
        /\ item.path = ImagePath(ds.img_ids[AccessedPosition])
        /\ DOMAIN item = {"kind", "idx", "path"}
        /\ ops = {}

\* C13: an access without label returns the path stored at that index and
\* nothing else, makes no call that opens an image, looks up annotations or
\* decodes masks, and changes neither the dataset nor the annotation index.
C13_WithoutLabel ==
    /\ [](C13_State)
    /\ [][item'.kind = "path" => (ds' = ds /\ coco' = coco)]_vars

\* the second of two retained images, reached by index 1
C13_Witness ==
    /\ item.kind = "path" /\ item.idx = 1 /\ ds.num_imgs = 2
    /\ item.path = ImagePath(2) /\ ops = {}

\* ------------------------------------------------------------------------
\* Properties of the dataset cache (SpecCache)
\* ------------------------------------------------------------------------
\* the entry load_data finds for dir before it loads the training data, and
\* the one it finds for the validation data once the training data is loaded
HadEntry(Key(_), dir) == Key(dir) \in DOMAIN cache
\* what one half of the call ld' must have done, the entries being kept
\* under Key
HalfAsCached(Key(_), dir, role, transform, found, result) ==
    IF found
    THEN /\ role \notin ld'.constructed
         /\ Key(dir) \in ld'.read
         /\ Key(dir) \in DOMAIN cache =>
               /\ result = cache[Key(dir)].dataset
               /\ cache'[Key(dir)] = cache[Key(dir)]
    ELSE /\ role \in ld'.constructed
         /\ result = BuildDataset(ld'.cwd, dir, transform)
         /\ Key(dir) \in DOMAIN cache'
         /\ cache'[Key(dir)].dataset = result
         /\ Key(dir) \in ld'.written
CallAsCached(Key(_)) ==
    IF ld'.cache_dataset
    THEN /\ HalfAsCached(Key, ld'.traindir, "train", "train",
                         HadEntry(Key, ld'.traindir), ld'.dataset)
         /\ HalfAsCached(Key, ld'.valdir, "val", "eval",
                         HadEntry(Key, ld'.valdir)
                             \/ Key(ld'.valdir) = Key(ld'.traindir),
                         ld'.dataset_test)
         /\ ld'.traindir # ld'.valdir =>
               Key(ld'.traindir) # Key(ld'.valdir)
         /\ \A k \in DOMAIN cache : k \in DOMAIN cache'
    ELSE /\ cache' = cache
         /\ ld'.read = {} /\ ld'.written = {}
         /\ ld'.constructed = {"train", "val"}

\* the key the claim names: derived from the absolute path of the directory
AbsoluteKey(dir) == _get_cache_path(abspath(ld'.cwd, dir))
\* the key derived from the path as it is given to load_data
GivenKey(dir) == <<"imagefolder", dir, "pt">>

C14_WitnessRelative ==
    /\ ld.called /\ ld.cache_dataset /\ ld.cwd = <<"/", "x">>
    /\ ld.traindir = <<"a", "train">> /\ "train" \notin ld.constructed
    /\ ld.dataset.samples = <<"/", "a", "train">>

\* ------------------------------------------------------------------------
\* Properties of the resume stage (Spec)
\* ------------------------------------------------------------------------
ResumeActed == Truthy(args.resume) /\ restored # {}
ExpectedRestored ==
    {"model"} \cup
    (IF ~args.test_only THEN {"optimizer", "lr_scheduler"} ELSE {}) \cup
    (IF args.model_ema /\ resume_file.model_ema THEN {"model_ema"} ELSE {})
    \cup (IF args.amp /\ resume_file.scaler THEN {"scaler"} ELSE {})

\* C15: once main has resumed from a checkpoint, the model weights are
\* restored, optimizer and LR-scheduler state exactly when the run is not
\* test-only, EMA state exactly when EMA is enabled and the checkpoint has
\* an EMA entry, scaler state exactly when AMP is enabled and the checkpoint
\* has a scaler entry; a missing EMA or scaler entry raises nothing and
\* main goes on to the test-only stage.
C15_ResumeRestore ==
    ResumeActed =>
        /\ restored = ExpectedRestored
        /\ err = NoErr
        /\ pc # "aborted"

\* the same for checkpoints that hold an entry for every active component:
\* there the restore is as claimed and main goes on
C15_WhenPresent ==
    (/\ ResumeActed
     /\ args.model_ema => resume_file.model_ema
     /\ args.amp => resume_file.scaler) =>
        /\ restored = ExpectedRestored
        /\ err = NoErr
        /\ pc # "aborted"

\* a resumed test-only run with EMA whose checkpoint has the EMA entry
C15_WitnessPresent ==
    /\ ResumeActed /\ args.test_only /\ args.model_ema
    /\ restored = {"model", "model_ema"} /\ pc = "done"

\* ------------------------------------------------------------------------
\* Properties of the tee logger (Spec)
\* ------------------------------------------------------------------------
\* the logger is opened once, by the first stage of main, and closed at most
\* once afterwards
OpenedOnce ==
    /\ [](pc # "start" => logger # "none")
    /\ [][logger' # logger =>
             \/ logger = "none" /\ logger' = "open" /\ pc = "start"
             \/ logger = "open" /\ logger' = "closed"]_vars

\* C16: every execution of main opens the tee logger exactly once, and
\* every execution that has returned normally, from the training loop (also
\* one with no epoch left) or from the test-only stage, has closed it.
C16_TeeLogger == OpenedOnce /\ [](pc = "done" => logger = "closed")

\* the same for the returns from the training loop alone
C16_TrainingRuns ==
    OpenedOnce /\ [](pc = "done" /\ ~args.test_only => logger = "closed")

\* a run that trained its epoch and returned
C16_WitnessTrained ==
    pc = "done" /\ ~args.test_only /\ trained # <<>> /\ logger = "closed"

\* ------------------------------------------------------------------------
\* Properties of train_one_epoch and evaluate (SpecEpoch)
\* ------------------------------------------------------------------------
Returned == ep.fn # "none" /\ ep.pc = "returned"
FactorOf == IF ep.fn = "train_one_epoch" THEN ep.train_epoch_size_factor
            ELSE ep.val_epoch_size_factor
\* the batches processed so far: each one ends in an update of the meters
Processed == Len(SelectSeq(calls, LAMBDA c : c[1] = "metric_logger.update"))
Threshold == round(FactorOf[1] * ep.dataset_len, FactorOf[2])

\* C17: a call of train_one_epoch or evaluate over N batches that has
\* returned has processed exactly min(N, round(f * N)) batches when its
\* truncation factor f is nonzero, and all N batches when the factor is 0.
C17_Truncation ==
    Returned =>
        Processed = (IF FactorOf[1] = 0 THEN ep.dataset_len
                     ELSE Min({ep.dataset_len, Threshold}))

\* what the loops do: the test follows the batch with index i, so a
\* truncated pass has processed round(f * N) + 1 batches
C17_OneMore ==
    Returned =>
        Processed = (IF FactorOf[1] = 0 THEN ep.dataset_len
                     ELSE Min({ep.dataset_len, Threshold + 1}))

\* a pass of 4 batches with factor 1/2 that has returned
C17_WitnessHalf ==
    Returned /\ ep.dataset_len = 4 /\ FactorOf = <<1, 2>> /\ Processed = 3

Has(kind, j) == \E p \in 1..Len(calls) : calls[p] = <<kind, j>>
Pos(kind, j) == CHOOSE p \in 1..Len(calls) : calls[p] = <<kind, j>>
Times(kind, j) == Len(SelectSeq(calls, LAMBDA c : c = <<kind, j>>))
BatchesDone == {j \in 0..MaxBatches : Has("optimizer.step", j)}
Updates == {j \in 0..MaxBatches : Has("update_parameters", j)}
EmaEnabled == ep.fn = "train_one_epoch" /\ ep.model_ema

\* C18: in train_one_epoch with EMA enabled the shadow model is updated at
\* batch index i exactly when i mod model_ema_steps = 0, once and after that
\* batch's optimizer step; the averaged-sample counter is reset to zero right
\* after an update exactly when epoch < lr_warmup_epochs, so it is zero when
\* a warmup epoch ends, and in a later epoch it is never reset and counts
\* the updates.
C18_EmaUpdate ==
    EmaEnabled =>
        /\ \A j \in BatchesDone :
              /\ Has("update_parameters", j) <=> j % ep.model_ema_steps = 0
              /\ Has("update_parameters", j) =>
                    /\ Times("update_parameters", j) = 1
                    /\ Pos("optimizer.step", j) < Pos("update_parameters", j)
              /\ Has("n_averaged.fill_", j) <=>
                    (/\ Has("update_parameters", j)
                     /\ ep.epoch < ep.lr_warmup_epochs)
              /\ Has("n_averaged.fill_", j) =>
                    Pos("n_averaged.fill_", j) =
                        Pos("update_parameters", j) + 1
        /\ Updates \subseteq BatchesDone
        /\ (ep.pc = "returned" /\ ep.epoch < ep.lr_warmup_epochs) =>
              ep.n_averaged = 0
        /\ ep.epoch >= ep.lr_warmup_epochs =>
              ep.n_averaged = ep.n_start + Cardinality(Updates)

\* a warmup epoch of 4 batches with an update every 2nd batch: updated at
\* the indices 0 and 2, the counter reset each time
C18_Witness ==
    /\ EmaEnabled /\ ep.pc = "returned" /\ ep.model_ema_steps = 2
    /\ ep.epoch = 0 /\ ep.lr_warmup_epochs = 1
    /\ BatchesDone = 0..3 /\ Updates = {0, 2}
    /\ Has("n_averaged.fill_", 2) /\ ep.n_averaged = 0

\* an epoch after the warmup: the counter has grown by the two updates
C18_WitnessLater ==
    /\ EmaEnabled /\ ep.pc = "returned" /\ ep.model_ema_steps = 3
    /\ ep.epoch = 2 /\ ep.lr_warmup_epochs = 1 /\ ep.n_start = 2
    /\ Updates = {0, 3} /\ ~Has("n_averaged.fill_", 0) /\ ep.n_averaged = 4

\* ------------------------------------------------------------------------
\* Properties of the args record (Spec)
\* ------------------------------------------------------------------------
\* utils.init_distributed_mode has returned
AfterDistInit ==
    pc \notin {"start", "init_distributed_mode"} /\ err # "AttributeError"
Derived == {"weights_url", "weights_enum", "start_epoch"}
SavedCheckpoints == fs.ckpt \cup {fs.ckpt_n[e] : e \in DOMAIN fs.ckpt_n}
\* b is a with every upper-case letter replaced by its lower-case letter
LowerCaseOf(a, b) ==
    /\ Len(b) = Len(a)
    /\ \A i \in 1..Len(a) :
          IF \E k \in 1..Len(UpperChars) : UpperChars[k] = a[i]
          THEN \E k \in 1..Len(UpperChars) :
                  UpperChars[k] = a[i] /\ LowerChars[k] = b[i]
          ELSE b[i] = a[i]

\* C19 as stated: main changes no field of args but weights_url,
\* weights_enum and start_epoch; after distributed initialisation every
\* other field, lr_scheduler included, keeps its parsed value at every later
\* point and in every saved checkpoint, distributed keeping the value
\* init_distributed_mode gave it.
C19_Original ==
    AfterDistInit =>
        \A c \in {args} \cup {k.args : k \in SavedCheckpoints} :
            /\ \A f \in DOMAIN argv \ (Derived \cup {"distributed"}) :
                  c[f] = argv[f]
            /\ c.distributed = dist_env

\* C19 amended: main changes weights_url, weights_enum, start_epoch (on
\* resume, to the checkpoint's epoch + 1) and lr_scheduler, which it
\* replaces by its lower-case form when it builds the scheduler; every
\* other field keeps its parsed value (distributed the value
\* init_distributed_mode gave it), and a saved checkpoint holds the record
\* with these changes.
C19_ArgsFields ==
    /\ [](AfterDistInit =>
            /\ \A f \in DOMAIN argv \
                        (Derived \cup {"distributed", "lr_scheduler"}) :
                  args[f] = argv[f]
            /\ args.distributed = dist_env
            /\ \/ args.lr_scheduler = argv.lr_scheduler
               \/ LowerCaseOf(argv.lr_scheduler, args.lr_scheduler)
            /\ \/ args.start_epoch = argv.start_epoch
               \/ /\ Truthy(args.resume) /\ restored # {}
                  /\ args.start_epoch = resume_file.epoch + 1
            /\ \A k \in SavedCheckpoints : k.args = args)
    /\ [][pc = "lr_scheduler" /\ pc' # pc =>
             LowerCaseOf(args.lr_scheduler, args'.lr_scheduler)]_vars
    /\ [][args'.lr_scheduler # args.lr_scheduler => pc = "lr_scheduler"]_vars

\* a run given --lr-scheduler StepLR that trained and saved a checkpoint:
\* args and the checkpoint hold steplr
C19_Witness ==
    /\ pc = "done" /\ argv.lr_scheduler = S_StepLR
    /\ args.lr_scheduler = S_steplr
    /\ fs.ckpt # {} /\ \A k \in fs.ckpt : k.args.lr_scheduler = S_steplr

\* a resumed run: start_epoch differs from the parsed one
C19_WitnessResume ==
    /\ pc = "done" /\ Truthy(args.resume)
    /\ args.start_epoch = 1 /\ argv.start_epoch = 0

\* ------------------------------------------------------------------------
\* Properties of the steps of an epoch (SpecLoop)
\* ------------------------------------------------------------------------
ExpectedEvals == IF args.model_ema THEN <<"model", "model_ema">>
                 ELSE <<"model">>
\* the epochs of this run before the current one, trained once each
TrainedBefore == [j \in 1..(epoch - args.start_epoch) |->
                     args.start_epoch + j - 1]
TrainedCurrent == Append(TrainedBefore, epoch)

\* C20: in every epoch of the training loop the steps come in this order,
\* each at most once: the sampler's epoch is set to the epoch number (in
\* distributed mode only), the epoch is trained, the LR schedule is stepped
\* once, the plain model is evaluated, the EMA model is evaluated (only with
\* EMA), and then checkpoints and exports are written with the epoch field
\* equal to that epoch; no checkpoint of an epoch exists before that
\* epoch's evaluation has finished.
C20_EpochOrder ==
    /\ [](InEpoch =>
            sampler_epoch = (IF args.distributed # 0 THEN epoch ELSE -1))
    /\ [](pc = "train" =>
            trained = TrainedBefore /\ lr_steps = Len(trained)
            /\ evals = <<>>)
    /\ [](pc = "lr_step" =>
            trained = TrainedCurrent /\ lr_steps = Len(trained) - 1
            /\ evals = <<>>)
    /\ [](pc = "evaluate" =>
            trained = TrainedCurrent /\ lr_steps = Len(trained)
            /\ evals = <<>>)
    /\ [](pc = "evaluate_ema" =>
            args.model_ema /\ trained = TrainedCurrent
            /\ lr_steps = Len(trained) /\ evals = <<"model">>)
    /\ [](pc \in {"save", "save_best"} =>
            trained = TrainedCurrent /\ lr_steps = Len(trained)
            /\ evals = ExpectedEvals)
    /\ [](\A c \in fs.ckpt \cup {fs.ckpt_n[e] : e \in DOMAIN fs.ckpt_n} :
            \/ c.epoch < epoch
            \/ c.epoch = epoch /\ pc = "save_best")
    /\ [][fs' # fs =>
             /\ pc \in {"save", "save_best"} /\ evals = ExpectedEvals
             /\ \A c \in last_ckpt' : c.epoch = epoch
             /\ \A x \in fs'.onnx : x \in fs.onnx \/ x.epoch = epoch]_vars

\* the second epoch of a distributed run with EMA, its numbered checkpoint
\* written: seeded with 1, trained, stepped, both models evaluated
C20_Witness ==
    /\ pc = "save_best" /\ args.distributed # 0 /\ args.model_ema
    /\ epoch = 1 /\ sampler_epoch = 1 /\ trained = <<0, 1>> /\ lr_steps = 2
    /\ evals = <<"model", "model_ema">>
    /\ 1 \in DOMAIN fs.ckpt_n /\ fs.ckpt_n[1].epoch = 1

\* a single-process run: the sampler's epoch is never set
C20_WitnessSingle ==
    /\ pc = "save_best" /\ args.distributed = 0 /\ epoch = 1
    /\ sampler_epoch = -1 /\ trained = <<0, 1>>

====
